---- MODULE Spec2Model ----
\* Model of the Gemini AI Summarizer backend (src/app.py): the prompt builder
\* construct_prompt and the POST /summarize request handler.
\*
\* A Python str that the code inspects character by character (strip, lower,
\* len) is a sequence of one-character strings; a str that is only compared,
\* interpolated or echoed is a TLA+ string.  Str converts the former to the
\* latter.  The characters are the code points U+0000 to U+00FF, the ones a
\* TLA+ string can hold.
EXTENDS FiniteSets, Integers, Naturals, Sequences, TLC

VARIABLES
  pc,           \* "idle" | "calling" (blocked in generate_content) | "done" (returned) | "escaped" (left by an exception); "cp_call" | "cp_done" for a direct call of construct_prompt
  request,      \* the HTTP request being handled
  stdout,       \* the process's standard output: encoding, error handler, closed or not
  cur_text,     \* local `text` of the handler / argument of construct_prompt
  cur_mode,     \* local `mode` / argument
  cur_length,   \* local `length` / argument
  cur_prompt,   \* local `prompt` / value returned by construct_prompt
  invocations,  \* number of activations of construct_prompt for the current call
  trace,        \* what the handler has done for the current request, in code order
  upstream,     \* outcome of client.models.generate_content for the current request
  raised,       \* the exception raised inside the try block for the current request
  escaped,      \* the class of the exception that left the handler, "" when none did
  responses     \* the (status, body) pairs returned for the current request

vars == <<pc, request, stdout, cur_text, cur_mode, cur_length, cur_prompt, invocations,
          trace, upstream, raised, escaped, responses>>

-----------------------------------------------------------------------------
\* Bounds of the explored inputs.

\* longest run of whitespace put before and after a text
MaxPad == 1
\* how far past the minimum length the longest explored text goes
MaxOver == 1

-----------------------------------------------------------------------------
\* Strings.

\* the characters s[lo..hi] joined into a string
RECURSIVE StrFrom(_, _, _)
StrFrom(s, lo, hi) ==
  IF lo > hi THEN ""
  ELSE IF lo = hi THEN s[lo]
  ELSE LET mid == (lo + hi) \div 2
       IN  StrFrom(s, lo, mid) \o StrFrom(s, mid + 1, hi)
Str(s) == StrFrom(s, 1, Len(s))

\* the characters of a TLA+ string
Chars(s) == [i \in 1..Len(s) |-> SubSeq(s, i, i)]

\* The text of an exception may hold any code point: a character beyond
\* U+00FF is written as its Python escape, "\\udc80" or "\\U0001f600", and
\* Str leaves the escape in the string.
\* the characters U+0080 to U+00FF
NonAscii == {"","","","","","","","","","","","","",
             "","","","","","","","","","","","","",
             "","","","","",""," ","¡","¢","£","¤","¥","¦",
             "§","¨","©","ª","«","¬","­","®","¯","°","±","²","³",
             "´","µ","¶","·","¸","¹","º","»","¼","½","¾","¿","À",
             "Á","Â","Ã","Ä","Å","Æ","Ç","È","É","Ê","Ë","Ì","Í",
             "Î","Ï","Ð","Ñ","Ò","Ó","Ô","Õ","Ö","×","Ø","Ù","Ú",
             "Û","Ü","Ý","Þ","ß","à","á","â","ã","ä","å","æ","ç",
             "è","é","ê","ë","ì","í","î","ï","ð","ñ","ò","ó","ô",
             "õ","ö","÷","ø","ù","ú","û","ü","ý","þ","ÿ"}
is_ascii(c) == Len(c) = 1 /\ c \notin NonAscii
HexHigh == {"8", "9", "a", "b", "c", "d", "e", "f"}
\* U+D800 to U+DFFF
is_surrogate(c) == Len(c) = 6 /\ SubSeq(c, 1, 3) = "\\ud" /\ SubSeq(c, 4, 4) \in HexHigh
\* U+DC80 to U+DCFF, the surrogates that stand for an undecodable byte
is_escaped_byte(c) == Len(c) = 6 /\ SubSeq(c, 1, 4) = "\\udc" /\ SubSeq(c, 5, 5) \in HexHigh

\* the characters that str.lower() changes, and what it changes them to
UpperLetters == <<"A","B","C","D","E","F","G","H","I","J","K","L","M",
                  "N","O","P","Q","R","S","T","U","V","W","X","Y","Z",
                  "À","Á","Â","Ã","Ä","Å","Æ","Ç","È","É","Ê","Ë","Ì",
                  "Í","Î","Ï","Ð","Ñ","Ò","Ó","Ô","Õ","Ö","Ø","Ù","Ú",
                  "Û","Ü","Ý","Þ">>
LowerLetters == <<"a","b","c","d","e","f","g","h","i","j","k","l","m",
                  "n","o","p","q","r","s","t","u","v","w","x","y","z",
                  "à","á","â","ã","ä","å","æ","ç","è","é","ê","ë","ì",
                  "í","î","ï","ð","ñ","ò","ó","ô","õ","ö","ø","ù","ú",
                  "û","ü","ý","þ">>

\* str.lower() on one character
lower_char(c) ==
  IF \E i \in 1..Len(UpperLetters) : UpperLetters[i] = c
  THEN LowerLetters[CHOOSE i \in 1..Len(UpperLetters) : UpperLetters[i] = c]
  ELSE c

\* str.lower()
lower(s) == [i \in 1..Len(s) |-> lower_char(s[i])]

\* the characters str.strip() removes: U+0009-000D, U+001C-001F, U+0020,
\* U+0085, U+00A0
Whitespace == {"\t", "\n", "", "\f", "\r", "", "", "", "", " ", "", " "}

RECURSIVE lstrip(_)
lstrip(s) == IF s # <<>> /\ Head(s) \in Whitespace THEN lstrip(Tail(s)) ELSE s

RECURSIVE rstrip(_)
rstrip(s) ==
  IF s # <<>> /\ s[Len(s)] \in Whitespace THEN rstrip(SubSeq(s, 1, Len(s) - 1)) ELSE s

\* str.strip()
strip(s) == rstrip(lstrip(s))

-----------------------------------------------------------------------------
\* construct_prompt (src/app.py:31-198).

\* length_specs, src/app.py:45-49
length_specs ==
  [short  |-> "2-3 sentences (50-75 words)",
   medium |-> "4-6 sentences (100-150 words)",
   long   |-> "7-10 sentences (200-250 words)"]

\* length_specs.get(length, length_specs['medium']), src/app.py:51
length_instruction_for(length) ==
  IF length \in DOMAIN length_specs THEN length_specs[length] ELSE length_specs["medium"]

\* Each template is the sequence of its f-string's pieces, literal text and
\* interpolated values in order; the prompt is their concatenation.
RECURSIVE Concat(_)
Concat(parts) == IF parts = <<>> THEN "" ELSE Head(parts) \o Concat(Tail(parts))

\* The f-string of src/app.py:64-82
paragraph_prompt(text, length_instruction) ==
  << "You are a professional text summarizer with expertise in condensing complex information.\n\nTask: Summarize the following text into a single, coherent paragraph.\n\nLength requirement: ",
     length_instruction,
     "\n\nGuidelines:\n- Maintain the core message and key points\n- Use clear, professional language\n- Ensure logical flow and coherence\n- Do NOT use bullet points or lists\n- Write in complete sentences with smooth transitions\n\nText to summarize:\n\"\"\"\n",
     text,
     "\n\"\"\"\n\nProvide only the summary paragraph, nothing else." >>

\* The f-string of src/app.py:92-110
bullets_prompt(text, length_instruction) ==
  << "You are an expert at extracting and organizing key information from text.\n\nTask: Extract the main points from the following text and present them as a clear ",
     "bullet-point",
     " list.\n\nLength requirement: ",
     length_instruction,
     " (distributed across bullet points)\n\nGuidelines:\n- Start each bullet with a dash (-)\n- Each point should be concise and self-contained\n- Use parallel grammatical structure\n- Focus on actionable insights and key facts\n- Order points by importance (most important first)\n\nText to analyze:\n\"\"\"\n",
     text,
     "\n\"\"\"\n\nProvide only the bullet-point list, nothing else." >>

\* The f-string of src/app.py:120-138
eli5_prompt(text, length_instruction) ==
  << "You are a patient teacher who explains complex topics to ",
     "5-year-old",
     " children using simple language and relatable examples.\n\nTask: Explain the following text as if you're talking to a 5-year-old child.\n\nLength requirement: ",
     length_instruction,
     "\n\nGuidelines:\n- Use VERY simple words (avoid jargon completely)\n- Use everyday analogies and examples\n- Break down complex ideas into small, digestible pieces\n- Be warm and encouraging in tone\n- Avoid technical terms unless absolutely necessary (and explain them simply)\n\nText to explain:\n\"\"\"\n",
     text,
     "\n\"\"\"\n\nProvide only the ELI5 explanation, nothing else." >>

\* The f-string of src/app.py:148-165
questions_prompt(text, length_instruction) ==
  << "You are a critical analyst who identifies the core questions that a piece of text addresses.\n\nTask: Analyze the following text and generate 3-5 key questions that this text answers or addresses.\n\nGuidelines:\n- Each question should be clear, specific, and insightful\n- Questions should capture the main themes and arguments\n- Use proper question format (Who/What/Where/When/Why/How)\n- Number each question (1., 2., 3., etc.)\n- Questions should be standalone (understandable without reading the text)\n- Prioritize questions by importance\n\nText to analyze:\n\"\"\"\n",
     text,
     "\n\"\"\"\n\nProvide only the numbered list of questions, nothing else." >>

\* The f-string of src/app.py:175-192
seo_prompt(text, length_instruction) ==
  << "You are an expert SEO copywriter specializing in meta descriptions for web content.\n\nTask: Create a compelling SEO meta description for the following text.\n\nCRITICAL Requirements:\n- Maximum length: ",
     "155 characters",
     " (STRICT LIMIT)\n- Include relevant keywords naturally\n- Make it engaging and click-worthy\n- Accurately represent the content\n- Use active voice\n- End with a call-to-action or value proposition when possible\n\nText to summarize:\n\"\"\"\n",
     text,
     "\n\"\"\"\n\nProvide ONLY the meta description (150-155 characters max), nothing else. No explanations or additional text." >>

\* prompt_parts with the 'seo' branch taking the paragraph template
prompt_parts_seo_as_paragraph(text, mode, length_instruction) ==
  CASE mode = "paragraph" -> paragraph_prompt(text, length_instruction)
    [] mode = "bullets"   -> bullets_prompt(text, length_instruction)
    [] mode = "eli5"      -> eli5_prompt(text, length_instruction)
    [] mode = "questions" -> questions_prompt(text, length_instruction)
    [] mode = "seo"       -> paragraph_prompt(text, length_instruction)

\* The pieces of the prompt of a recognised mode, src/app.py:56-192
prompt_parts(text, mode, length_instruction) ==
  CASE mode = "paragraph" -> paragraph_prompt(text, length_instruction)
    [] mode = "bullets"   -> bullets_prompt(text, length_instruction)
    [] mode = "eli5"      -> eli5_prompt(text, length_instruction)
    [] mode = "questions" -> questions_prompt(text, length_instruction)
    [] mode = "seo"       -> seo_prompt(text, length_instruction)

\* the modes with a template of their own, src/app.py:56,84,112,140,167
TemplateModes == {"paragraph", "bullets", "eli5", "questions", "seo"}

RECURSIVE construct_prompt_run(_, _, _)

\* fallback_run losing the caller's length
fallback_run_medium(text, mode, length) == construct_prompt_run(text, "paragraph", "medium")

\* The else branch, src/app.py:194-196: the call is repeated with mode
\* 'paragraph' and the same text and length.
fallback_run(text, mode, length) == construct_prompt_run(text, "paragraph", length)

\* One activation of construct_prompt: ret is the value returned, calls the
\* number of activations of construct_prompt it took, this one included.
construct_prompt_run(text, mode, length) ==
  LET length_instruction == length_instruction_for(length)
  IN  IF mode \in TemplateModes
      THEN [ret |-> Concat(prompt_parts(text, mode, length_instruction)), calls |-> 1]
      ELSE LET r == fallback_run(text, mode, length)
           IN  [ret |-> r.ret, calls |-> r.calls + 1]

construct_prompt(text, mode, length) == construct_prompt_run(text, mode, length).ret

-----------------------------------------------------------------------------
\* POST /summarize (src/app.py:201-283).

\* A key of the JSON object: not present, or present with a value.  type is
\* the name of the value's Python type, val its characters when it is a str.
Field(v) == [present |-> TRUE, type |-> "str", val |-> v]
FieldOf(ty) == [present |-> TRUE, type |-> ty, val |-> <<>>]
Absent == [present |-> FALSE, type |-> "str", val |-> <<>>]

\* dict.get(key, default), the default being a str
Get(field, default) ==
  IF field.present THEN [type |-> field.type, val |-> field.val]
  ELSE [type |-> "str", val |-> default]

\* Request bodies.  body is one of
\*   "none"      no body and no JSON content type
\*   "empty"     Content-Type: application/json with a zero-length body
\*   "malformed" Content-Type: application/json with a body that is not JSON
\*   "object"    a JSON object; text, mode and length are its keys of these
\*               names, other says whether it has any other key
\*   or the text of a JSON value that is not an object, one of JsonScalars
Req(body, t, m, l, other) == [body |-> body, text |-> t, mode |-> m, length |-> l, other |-> other]

NoRequest == Req("-", Absent, Absent, Absent, FALSE)

\* JSON bodies that are not objects
JsonScalars == {"null", "0", "7", "false", "true", "\"\"", "\"abc\"", "[]", "[1]"}

\* the name of the Python type json.loads gives the body
json_type(body) ==
  CASE body = "null"               -> "NoneType"
    [] body \in {"0", "7"}         -> "int"
    [] body \in {"false", "true"}  -> "bool"
    [] body \in {"\"\"", "\"abc\""} -> "str"
    [] body \in {"[]", "[1]"}      -> "list"
    [] body = "object"             -> "dict"

\* A class, by the names of the classes of its __mro__: its own name, then
\* those of its base.
Class(name, base) == <<name>> \o base
BaseExceptionClass == <<"BaseException", "object">>
ExceptionClass == Class("Exception", BaseExceptionClass)
AttributeErrorClass == Class("AttributeError", ExceptionClass)
ValueErrorClass == Class("ValueError", ExceptionClass)
UnicodeEncodeErrorClass == Class("UnicodeEncodeError", Class("UnicodeError", ValueErrorClass))
HTTPExceptionClass == Class("HTTPException", ExceptionClass)
BadRequestClass == Class("BadRequest", HTTPExceptionClass)
UnsupportedMediaTypeClass == Class("UnsupportedMediaType", HTTPExceptionClass)
ClientErrorClass == Class("ClientError", Class("APIError", ExceptionClass))
ExceptionGroupClass ==
  Class("ExceptionGroup", Class("BaseExceptionGroup", ExceptionClass))
KeyboardInterruptClass == Class("KeyboardInterrupt", BaseExceptionClass)
SystemExitClass == Class("SystemExit", BaseExceptionClass)
GeneratorExitClass == Class("GeneratorExit", BaseExceptionClass)
CancelledErrorClass == Class("CancelledError", BaseExceptionClass)
BaseExceptionGroupClass == Class("BaseExceptionGroup", BaseExceptionClass)

\* An exception: the name of its class, the __mro__ of the class, and the
\* characters of str(e).
Exc(mro, detail) == [cls |-> mro[1], mro |-> mro, detail |-> detail]
NoExc == [cls |-> "", mro |-> <<>>, detail |-> <<>>]

\* isinstance(e, cls): cls is among the classes of type(e).__mro__
isinstance(exc, cls) == \E i \in 1..Len(exc.mro) : exc.mro[i] = cls

\* the AttributeError of a method looked up on a value that lacks it
AttributeError(ty, attr) ==
  Exc(AttributeErrorClass, Chars("'" \o ty \o "' object has no attribute '" \o attr \o "'"))

\* request.get_json(), src/app.py:227.  With the default silent=False Flask
\* raises UnsupportedMediaType when the content type is not JSON (since
\* Flask 2.1; the google-genai client the module imports is younger) and
\* BadRequest when the body does not parse, a zero-length body included;
\* otherwise it returns the value.  (With app.debug set the description of
\* the BadRequest carries the parser's message instead.)
UnsupportedMediaType ==
  Exc(UnsupportedMediaTypeClass,
      Chars("415 Unsupported Media Type: Did not attempt to load JSON data because the request Content-Type was not 'application/json'."))
BadRequest ==
  Exc(BadRequestClass,
      Chars("400 Bad Request: The browser (or proxy) sent a request that this server could not understand."))

get_json(req) ==
  CASE req.body = "none"                   -> [raised |-> TRUE,  exc |-> UnsupportedMediaType, data |-> req]
    [] req.body \in {"empty", "malformed"} -> [raised |-> TRUE,  exc |-> BadRequest, data |-> req]
    [] req.body \in JsonScalars \cup {"object"} -> [raised |-> FALSE, exc |-> NoExc, data |-> req]

\* `not data`, src/app.py:230: None, 0, False, '', [] and {} are falsy
no_data(data) ==
  \/ data.body \in {"null", "0", "false", "\"\"", "[]"}
  \/ data.body = "object" /\ ~data.text.present /\ ~data.mode.present
       /\ ~data.length.present /\ ~data.other

Paragraph == <<"p","a","r","a","g","r","a","p","h">>
Medium == <<"m","e","d","i","u","m">>
Short == <<"s","h","o","r","t">>

\* The right-hand sides of src/app.py:233-235: the str assigned, or the
\* AttributeError of .strip() / .lower() on a value that is not a str.
\* src/app.py:233
extract_text(data) ==
  LET v == Get(data.text, <<>>)
  IN  IF v.type = "str" THEN [ok |-> TRUE, val |-> strip(v.val), exc |-> NoExc]
      ELSE [ok |-> FALSE, val |-> <<>>, exc |-> AttributeError(v.type, "strip")]

\* extract_mode without the lower-casing
extract_mode_as_given(data) ==
  LET v == Get(data.mode, Paragraph)
  IN  IF v.type = "str" THEN [ok |-> TRUE, val |-> v.val, exc |-> NoExc]
      ELSE [ok |-> FALSE, val |-> <<>>, exc |-> AttributeError(v.type, "lower")]
\* src/app.py:234
extract_mode(data) ==
  LET v == Get(data.mode, Paragraph)
  IN  IF v.type = "str" THEN [ok |-> TRUE, val |-> lower(v.val), exc |-> NoExc]
      ELSE [ok |-> FALSE, val |-> <<>>, exc |-> AttributeError(v.type, "lower")]

\* extract_length with another default
extract_length_default_short(data) ==
  LET v == Get(data.length, Short)
  IN  IF v.type = "str" THEN [ok |-> TRUE, val |-> lower(v.val), exc |-> NoExc]
      ELSE [ok |-> FALSE, val |-> <<>>, exc |-> AttributeError(v.type, "lower")]
\* src/app.py:235
extract_length(data) ==
  LET v == Get(data.length, Medium)
  IN  IF v.type = "str" THEN [ok |-> TRUE, val |-> lower(v.val), exc |-> NoExc]
      ELSE [ok |-> FALSE, val |-> <<>>, exc |-> AttributeError(v.type, "lower")]

\* src/app.py:241
MinTextLen == 50
text_too_short(t) == Len(t) < MinTextLen

\* src/app.py:244
AllowedModes == {"paragraph", "bullets", "eli5", "questions", "seo"}
\* src/app.py:247
AllowedLengths == {"short", "medium", "long"}

\* a (status, body) pair as returned by the view
ErrorResponse(status, msg) == [status |-> status, body |-> [error |-> msg]]
NoResponse == ErrorResponse(0, "")

\* The input validation, src/app.py:238-248: the 400 response of the first
\* check that fails, or NoResponse when all pass.
validate(t, m, l) ==
  IF t = <<>> THEN ErrorResponse(400, "Text field is required")
  ELSE IF text_too_short(t) THEN ErrorResponse(400, "Text must be at least 50 characters long")
  ELSE IF Str(m) \notin AllowedModes THEN ErrorResponse(400, "Invalid mode specified")
  ELSE IF Str(l) \notin AllowedLengths THEN ErrorResponse(400, "Invalid length specified")
  ELSE NoResponse

\* the response of the except block, src/app.py:281-283
ErrorPrefix == "An error occurred while generating the summary: "
handle_exception(detail) == ErrorResponse(500, ErrorPrefix \o Str(detail))

\* `except Exception`, src/app.py:276: the clause catches the instances of
\* Exception, by the hierarchy of the classes
caught(exc) == isinstance(exc, "Exception")

\* sys.stdout as print finds it: the encoding and the error handler of the
\* text stream, and whether the stream is closed.
Stream(encoding, errors, closed) == [encoding |-> encoding, errors |-> errors, closed |-> closed]

\* the codec can encode the character
encodes(c, encoding) ==
  CASE encoding = "ascii"   -> is_ascii(c)
    [] encoding = "latin-1" -> Len(c) = 1
    [] encoding = "utf-8"   -> ~is_surrogate(c)

\* the error handler takes care of a character the codec cannot encode
handles(c, encoding, errors) ==
  CASE errors = "strict" -> FALSE
    [] errors \in {"replace", "ignore", "backslashreplace", "xmlcharrefreplace", "namereplace"} -> TRUE
    [] errors = "surrogateescape" -> is_escaped_byte(c)
    [] errors = "surrogatepass" -> encoding = "utf-8" /\ is_surrogate(c)

\* print(f"Error in summarize endpoint: {str(e)}"), src/app.py:278: the name
\* of the class of the exception it raises, "" when it writes the line.  A
\* closed stream raises ValueError; a character of str(e) that the stream
\* can neither encode nor hand to its error handler raises
\* UnicodeEncodeError.  The literal part of the line is ASCII.
print_raises(exc, out) ==
  IF out.closed THEN "ValueError"
  ELSE IF \E i \in 1..Len(exc.detail) :
            /\ ~encodes(exc.detail[i], out.encoding)
            /\ ~handles(exc.detail[i], out.encoding, out.errors)
    THEN "UnicodeEncodeError"
  ELSE ""

\* How the handler ends: it returns resp (kind "return"), or the exception of
\* class exc leaves it (kind "escape"); events is what it did on the way.
Return(resp, events) == [kind |-> "return", resp |-> resp, exc |-> "", events |-> events]
Escape(cls, events) == [kind |-> "escape", resp |-> NoResponse, exc |-> cls, events |-> events]

\* An exception raised inside the try block, src/app.py:276-283.
except_block(exc, out) ==
  IF ~caught(exc) THEN Escape(exc.cls, <<>>)
  ELSE IF print_raises(exc, out) # "" THEN Escape(print_raises(exc, out), <<"print">>)
  ELSE Return(handle_exception(exc.detail), <<"print", "respond">>)

\* src/app.py:267-274
success_response(generated, m, l) ==
  [status |-> 200, body |-> [summary |-> Str(strip(generated)), mode |-> m, length |-> l]]

\* What the handler does between the validation and the return of
\* generate_content, src/app.py:251-264
call_events == <<"construct_prompt", "generate_content">>

\* The handler from its entry to its end or to the upstream call,
\* src/app.py:225-255.  kind "call" means that the call is made.
entry(req, out) ==
  LET j == get_json(req)
      none == [text |-> "", mode |-> "", length |-> "", prompt |-> "", calls |-> 0]
      raise(exc, locals) == except_block(exc, out) @@ [raised |-> exc] @@ locals
      return(resp, locals) == Return(resp, <<"respond">>) @@ [raised |-> NoExc] @@ locals
  IN  IF j.raised THEN raise(j.exc, none)
      ELSE IF no_data(j.data) THEN return(ErrorResponse(400, "No data provided"), none)
      ELSE IF j.data.body # "object" THEN raise(AttributeError(json_type(j.data.body), "get"), none)
      ELSE
        LET t == extract_text(j.data)
            m == extract_mode(j.data)
            l == extract_length(j.data)
        IN  IF ~t.ok THEN raise(t.exc, none)
            ELSE IF ~m.ok THEN raise(m.exc, [none EXCEPT !.text = Str(t.val)])
            ELSE IF ~l.ok
              THEN raise(l.exc, [none EXCEPT !.text = Str(t.val), !.mode = Str(m.val)])
            ELSE
              LET v == validate(t.val, m.val, l.val)
                  locals == [none EXCEPT !.text = Str(t.val), !.mode = Str(m.val),
                                         !.length = Str(l.val)]
              IN  IF v # NoResponse THEN return(v, locals)
                  ELSE
                    LET run == construct_prompt_run(Str(t.val), Str(m.val), Str(l.val))
                    IN  [kind |-> "call", resp |-> NoResponse, exc |-> "",
                         events |-> call_events, raised |-> NoExc]
                          @@ [locals EXCEPT !.prompt = run.ret, !.calls = run.calls]

\* str(e) of the AttributeError raised by response.text.strip() when
\* response.text is None, src/app.py:267
NoneTypeError == AttributeError("NoneType", "strip")

\* the exception raised inside the try block once generate_content has ended
raised_after_call(up) ==
  CASE up.kind = "text"  -> NoExc
    [] up.kind = "none"  -> NoneTypeError
    [] up.kind = "raise" -> up.exc

\* The handler from the end of generate_content to its own end,
\* src/app.py:267-283.  up is the outcome of the call.
completion(up, m, l, out) ==
  IF up.kind = "text" THEN Return(success_response(up.val, m, l), <<"respond">>)
  ELSE except_block(raised_after_call(up), out)

-----------------------------------------------------------------------------
\* Inputs.

PadChars == {" ", "\f"}
Pads == UNION {[1..k -> PadChars] : k \in 0..MaxPad}

\* a text of n characters that starts and ends with a non-blank character
Core(n) ==
  [i \in 1..n |-> IF i = 1 THEN "T" ELSE IF i = n THEN "." ELSE IF i % 5 = 0 THEN " " ELSE "e"]

CoreLens == {0, 1, MinTextLen - 1, MinTextLen, MinTextLen + MaxOver}
\* padded on one side, or alike on both
PadPairs == {p \in Pads \X Pads : p[1] = <<>> \/ p[2] = <<>> \/ p[1] = p[2]}
TextInputs == {p[1] \o Core(n) \o p[2] : p \in PadPairs, n \in CoreLens}

upper_char(c) ==
  IF \E i \in 1..Len(LowerLetters) : LowerLetters[i] = c
  THEN UpperLetters[CHOOSE i \in 1..Len(LowerLetters) : LowerLetters[i] = c]
  ELSE c
upper(s) == [i \in 1..Len(s) |-> upper_char(s[i])]
capitalize(s) == [i \in 1..Len(s) |-> IF i = 1 THEN upper_char(s[i]) ELSE s[i]]

Bullets == <<"b","u","l","l","e","t","s">>
Eli5 == <<"e","l","i","5">>
Questions == <<"q","u","e","s","t","i","o","n","s">>
Seo == <<"s","e","o">>
Haiku == <<"h","a","i","k","u">>
Long == <<"l","o","n","g">>
Tiny == <<"t","i","n","y">>

ModeNames == {Paragraph, Bullets, Eli5, Questions, Seo}
ModeInputs ==
  ModeNames \cup {upper(Bullets), capitalize(Seo), Haiku, <<"S","É","O">>, <<>>, <<" ">> \o Bullets}

LengthNames == {Short, Medium, Long}
LengthInputs ==
  LengthNames \cup {upper(Long), Tiny, <<>>}

Fields(S) == {Absent} \cup {Field(v) : v \in S}

\* values that are not strings, by the name of their type
OtherTypes == {"NoneType", "int"}
Others == {FieldOf(ty) : ty \in OtherTypes}

\* objects whose values are strings
StringRequests ==
  {Req("object", t, m, l, FALSE) :
     t \in Fields(TextInputs), m \in Fields(ModeInputs), l \in Fields(LengthInputs)}

\* objects with a value that is not a string
TypedRequests ==
  {r \in {Req("object", t, m, l, FALSE) :
            t \in Fields({Core(MinTextLen - 1), Core(MinTextLen)}) \cup Others,
            m \in Fields({Bullets, Haiku}) \cup Others,
            l \in Fields({Tiny}) \cup Others} :
     r.text \in Others \/ r.mode \in Others \/ r.length \in Others}

Requests ==
  {Req(b, Absent, Absent, Absent, FALSE) : b \in {"none", "empty", "malformed"} \cup JsonScalars}
    \cup StringRequests \cup TypedRequests
    \cup {Req("object", Absent, Absent, Absent, TRUE)}

\* Outcomes of client.models.generate_content: a response whose text is a
\* string, a response whose text is None, or an exception.
Generated == <<"A", " ", "b", ".">>
GeneratedTexts ==
  {Generated, <<" ">> \o Generated, Generated \o <<"\f">>,
   <<"\n", " ">> \o Generated \o <<" ">>, <<" ", "\n">>}
\* a lone surrogate, U+DC80
LoneSurrogate == "\\udc80"
UpstreamExceptions ==
  {Exc(ClientErrorClass, Chars("429 RESOURCE_EXHAUSTED. Quota exceeded.")),
   Exc(ExceptionClass, <<>>),
   Exc(ExceptionClass, Chars("quota dépassé")),
   Exc(ExceptionClass, <<LoneSurrogate>>),
   Exc(KeyboardInterruptClass, Chars("stop")),
   Exc(CancelledErrorClass, Chars("cancelled")),
   Exc(BaseExceptionGroupClass, Chars("grp (1 sub-exception)"))}

Returned(g) == [kind |-> "text", val |-> g, exc |-> NoExc]
ReturnedNone == [kind |-> "none", val |-> <<>>, exc |-> NoExc]
Raised(e) == [kind |-> "raise", val |-> <<>>, exc |-> e]
NoUpstream == [kind |-> "-", val |-> <<>>, exc |-> NoExc]

Utf8 == Stream("utf-8", "strict", FALSE)
Streams ==
  {Utf8, Stream("ascii", "strict", FALSE), Stream("ascii", "replace", FALSE),
   Stream("utf-8", "strict", TRUE)}

-----------------------------------------------------------------------------
\* The handler as a state machine.

Init ==
  /\ pc = "idle"
  /\ request = NoRequest
  /\ stdout \in Streams
  /\ cur_text = "" /\ cur_mode = "" /\ cur_length = ""
  /\ cur_prompt = ""
  /\ invocations = 0
  /\ trace = <<>>
  /\ upstream = NoUpstream
  /\ raised = NoExc
  /\ escaped = ""
  /\ responses = <<>>

\* A request arrives and the handler runs up to its end or up to the
\* upstream call.
Summarize(req) ==
  /\ pc = "idle"
  /\ LET e == entry(req, stdout)
     IN  /\ request' = req
         /\ cur_text' = e.text /\ cur_mode' = e.mode /\ cur_length' = e.length
         /\ cur_prompt' = e.prompt
         /\ invocations' = e.calls
         /\ trace' = e.events
         /\ raised' = e.raised
         /\ escaped' = e.exc
         /\ responses' = IF e.kind = "return" THEN <<e.resp>> ELSE <<>>
         /\ pc' = CASE e.kind = "call" -> "calling"
                    [] e.kind = "return" -> "done"
                    [] e.kind = "escape" -> "escaped"
  /\ UNCHANGED <<stdout, upstream>>

\* generate_content has ended with the outcome up.
Complete(up) ==
  /\ pc = "calling"
  /\ LET c == completion(up, cur_mode, cur_length, stdout)
     IN  /\ upstream' = up
         /\ raised' = raised_after_call(up)
         /\ escaped' = c.exc
         /\ responses' = IF c.kind = "return" THEN Append(responses, c.resp) ELSE responses
         /\ trace' = trace \o c.events
         /\ pc' = IF c.kind = "return" THEN "done" ELSE "escaped"
  /\ UNCHANGED <<request, stdout, cur_text, cur_mode, cur_length, cur_prompt, invocations>>

\* generate_content returns a response.
GenerateReturns(up) == up.kind \in {"text", "none"} /\ Complete(up)

\* generate_content raises.
GenerateRaises(up) == up.kind = "raise" /\ Complete(up)

\* The handler has ended; nothing of the request is kept.
Finish ==
  /\ pc \in {"done", "escaped"}
  /\ pc' = "idle"
  /\ request' = NoRequest
  /\ cur_text' = "" /\ cur_mode' = "" /\ cur_length' = ""
  /\ cur_prompt' = ""
  /\ invocations' = 0
  /\ trace' = <<>>
  /\ upstream' = NoUpstream
  /\ raised' = NoExc
  /\ escaped' = ""
  /\ responses' = <<>>
  /\ UNCHANGED stdout

Next ==
  \/ \E req \in Requests : Summarize(req)
  \/ \E g \in GeneratedTexts : GenerateReturns(Returned(g))
  \/ GenerateReturns(ReturnedNone)
  \/ \E e \in UpstreamExceptions : GenerateRaises(Raised(e))
  \/ Finish

Spec == Init /\ [][Next]_vars

-----------------------------------------------------------------------------
\* construct_prompt called directly, on arguments the handler would reject
\* as well.

PromptTexts == {Str(t) : t \in TextInputs}
PromptModes == {Str(m) : m \in ModeInputs}
PromptLengths == {Str(l) : l \in LengthInputs}

PromptInit ==
  /\ pc = "cp_call"
  /\ request = NoRequest
  /\ stdout = Utf8
  /\ cur_text \in PromptTexts /\ cur_mode \in PromptModes /\ cur_length \in PromptLengths
  /\ cur_prompt = ""
  /\ invocations = 0
  /\ trace = <<>>
  /\ upstream = NoUpstream
  /\ raised = NoExc
  /\ escaped = ""
  /\ responses = <<>>

ConstructPrompt ==
  /\ pc = "cp_call"
  /\ LET run == construct_prompt_run(cur_text, cur_mode, cur_length)
     IN  cur_prompt' = run.ret /\ invocations' = run.calls
  /\ pc' = "cp_done"
  /\ UNCHANGED <<request, stdout, cur_text, cur_mode, cur_length, trace, upstream, raised,
                 escaped, responses>>

PromptNext == ConstructPrompt

PromptSpec == PromptInit /\ [][PromptNext]_vars

-----------------------------------------------------------------------------
\* Vocabulary of the properties.

\* the handler has ended, by a return or by an exception
Ended == pc \in {"done", "escaped"}
\* the handler has returned
Done == pc = "done"
Response == responses[1]
Contains(seq, x) == \E i \in 1..Len(seq) : seq[i] = x
Count(seq, x) == Cardinality({i \in 1..Len(seq) : seq[i] = x})

\* the request's body was read as JSON
Parsed(req) == req.body \notin {"none", "empty", "malformed"}
\* the request carries no body, or an empty one
NoBody(req) ==
  \/ req.body \in {"none", "empty", "null", "0", "false", "\"\"", "[]"}
  \/ req.body = "object" /\ ~req.text.present /\ ~req.mode.present
       /\ ~req.length.present /\ ~req.other

IsStr(f) == ~f.present \/ f.type = "str"
\* the body is a JSON object, or an empty value, and the values of text,
\* mode and length are strings
WellTyped(req) ==
  /\ req.body \in {"object", "null", "0", "false", "\"\"", "[]"}
  /\ IsStr(req.text) /\ IsStr(req.mode) /\ IsStr(req.length)

\* the values the request asks for, defaults applied
TrimmedText(req) == strip(Get(req.text, <<>>).val)
AskedMode(req) == Str(lower(Get(req.mode, Paragraph).val))
AskedLength(req) == Str(lower(Get(req.length, Medium).val))

\* The constraints on a request, numbered in the order of the handler's
\* checks, and the message of each.
Violations(req) ==
  {k \in 1..5 :
      \/ k = 1 /\ NoBody(req)
      \/ k = 2 /\ IsStr(req.text) /\ TrimmedText(req) = <<>>
      \/ k = 3 /\ IsStr(req.text) /\ Len(TrimmedText(req)) < 50
      \/ k = 4 /\ (~IsStr(req.mode)
                    \/ AskedMode(req) \notin {"paragraph", "bullets", "eli5", "questions", "seo"})
      \/ k = 5 /\ (~IsStr(req.length)
                    \/ AskedLength(req) \notin {"short", "medium", "long"})}

Messages ==
  <<"No data provided", "Text field is required", "Text must be at least 50 characters long",
    "Invalid mode specified", "Invalid length specified">>

FirstViolation(req) == CHOOSE k \in Violations(req) : \A j \in Violations(req) : k <= j

-----------------------------------------------------------------------------
\* Properties.

\* C1: a request that fails validation (empty or missing body, empty or
\* short trimmed text, mode or length outside the allowed values) is answered
\* with 400, and neither construct_prompt nor the external call is invoked.
C1_InvalidRequestGets400 ==
  (Ended /\ request.body # "malformed" /\ Violations(request) # {}) =>
     /\ Len(responses) = 1 /\ Response.status = 400
     /\ ~Contains(trace, "construct_prompt")
     /\ ~Contains(trace, "generate_content")

\* What holds of every request that fails validation: neither invocation
\* happens; and the well-typed ones that were read as JSON do get 400.
InvalidRequestNeverCalls ==
  (Ended /\ Violations(request) # {}) =>
     /\ ~Contains(trace, "construct_prompt")
     /\ ~Contains(trace, "generate_content")
     /\ (Parsed(request) /\ WellTyped(request)) => (Len(responses) = 1 /\ Response.status = 400)

\* C2: a body that is absent or cannot be parsed as JSON is answered with
\* 400 and {error: "No data provided"}.
C2_UnparseableBodyGets400 ==
  (Ended /\ request.body \in {"none", "empty", "malformed"}) =>
     responses = <<ErrorResponse(400, "No data provided")>>

\* C3: when the external call fails or an exception is raised in the
\* handler, the handler returns exactly one response, with status 500 and
\* error "An error occurred while generating the summary: " followed by the
\* failure's description, no exception escapes and there is no 200 response.
C3_FailureGets500 ==
  (Ended /\ raised # NoExc) =>
     /\ Done /\ escaped = ""
     /\ Len(responses) = 1
     /\ Response.status = 500
     /\ Response.body = [error |-> "An error occurred while generating the summary: "
                                       \o Str(raised.detail)]

\* What holds of the failures: never a 200; an exception that leaves the
\* handler is one that is no Exception, or the one print raised; and an
\* Exception whose text is ASCII, or is written to a stream that replaces
\* what it cannot encode, gets the 500 when the standard output is open.
CaughtFailureGets500 ==
  (Ended /\ raised # NoExc) =>
     /\ \A i \in 1..Len(responses) : responses[i].status # 200
     /\ pc = "escaped" =>
          \/ escaped = raised.cls /\ ~Contains(raised.mro, "Exception") /\ ~Contains(trace, "print")
          \/ escaped \in {"UnicodeEncodeError", "ValueError"} /\ trace[Len(trace)] = "print"
     /\ (/\ Contains(raised.mro, "Exception")
         /\ ~stdout.closed
         /\ \/ \A i \in 1..Len(raised.detail) : raised.detail[i] \notin NonAscii /\ Len(raised.detail[i]) = 1
            \/ stdout.errors = "replace") =>
          /\ Done /\ escaped = ""
          /\ responses = <<[status |-> 500,
                            body |-> [error |-> "An error occurred while generating the summary: "
                                                   \o Str(raised.detail)]]>>

\* C4: the minimum-length check is on the trimmed text and inclusive at 50:
\* below 50 characters the request gets 400 and no external call is made, at
\* 50 or more the text passes the two text checks.
C4_MinLengthBoundary ==
  (pc \in {"calling", "done", "escaped"} /\ request.body = "object"
     /\ request.text.present /\ request.text.type = "str") =>
     LET n == Len(TrimmedText(request))
     IN  /\ n < 50 =>
              /\ Done /\ Len(responses) = 1 /\ Response.status = 400
              /\ ~Contains(trace, "generate_content")
         /\ n >= 50 =>
              ~(Done /\ Len(responses) = 1 /\ Response.status = 400
                  /\ Response.body.error \in {"Text field is required",
                                              "Text must be at least 50 characters long"})
         /\ (n = 50 /\ Violations(request) = {}) => Contains(trace, "generate_content")

\* The same of the requests whose mode and length are strings; no request
\* with a text below 50 characters makes the external call.
MinLengthBoundaryWellTyped ==
  (pc \in {"calling", "done", "escaped"} /\ request.body = "object"
     /\ request.text.present /\ request.text.type = "str") =>
     LET n == Len(TrimmedText(request))
     IN  /\ n < 50 => ~Contains(trace, "generate_content")
         /\ (n < 50 /\ WellTyped(request)) => (Done /\ Len(responses) = 1 /\ Response.status = 400)
         /\ n >= 50 =>
              ~(Done /\ Len(responses) = 1 /\ Response.status = 400
                  /\ Response.body.error \in {"Text field is required",
                                              "Text must be at least 50 characters long"})
         /\ (n = 50 /\ Violations(request) = {}) => Contains(trace, "generate_content")

\* C5: for a mode that is none of the five, construct_prompt returns what it
\* returns for mode 'paragraph' on the same text and length, after exactly one
\* recursive call.
C5_UnknownModeIsParagraph ==
  (pc = "cp_done" /\ cur_mode \notin {"paragraph", "bullets", "eli5", "questions", "seo"}) =>
     /\ cur_prompt = construct_prompt(cur_text, "paragraph", cur_length)
     /\ invocations = 2

C5_Witness ==
  /\ pc = "cp_done" /\ cur_mode = "haiku" /\ cur_length = "short" /\ cur_text # ""
  /\ invocations = 2

\* two strings that differ at most in the case of their letters
IsCasePair(u, l) == \E k \in 1..Len(UpperLetters) : UpperLetters[k] = u /\ LowerLetters[k] = l
SameUpToCase(a, b) ==
  /\ Len(a) = Len(b)
  /\ \A i \in 1..Len(a) : a[i] = b[i] \/ IsCasePair(a[i], b[i]) \/ IsCasePair(b[i], a[i])

\* C6: a request that differs from the handled one only in the letter case
\* of its mode is, with the same upstream result, validated alike, sends the
\* same prompt and ends alike, with the same response, and a 200 response
\* echoes the mode in lower case.
C6_ModeCaseInsensitive ==
  (pc \in {"calling", "done", "escaped"} /\ request.body = "object"
     /\ request.mode.present /\ request.mode.type = "str") =>
     /\ \A m2 \in ModeInputs :
          SameUpToCase(m2, request.mode.val) =>
             LET e2 == entry([request EXCEPT !.mode = Field(m2)], stdout)
                 o2 == IF e2.kind = "call"
                       THEN completion(upstream, e2.mode, e2.length, stdout)
                       ELSE e2
             IN  /\ (e2.kind = "call") = Contains(trace, "generate_content")
                 /\ e2.prompt = cur_prompt
                 /\ Ended =>
                      /\ responses = (IF o2.kind = "return" THEN <<o2.resp>> ELSE <<>>)
                      /\ escaped = o2.exc
     /\ (Done /\ Response.status = 200) =>
           /\ Response.body.mode \in {"paragraph", "bullets", "eli5", "questions", "seo"}
           /\ \E m \in ModeNames : Str(m) = Response.body.mode /\ SameUpToCase(m, request.mode.val)

C6_Witness ==
  /\ Done /\ request.body = "object" /\ request.mode = Field(upper(Bullets))
  /\ Response.status = 200 /\ Response.body.mode = "bullets"

\* C7: with a valid text and neither mode nor length, the prompt sent is
\* construct_prompt(text, 'paragraph', 'medium') and a successful call gives
\* 200 with mode "paragraph", length "medium" and the trimmed generated text.
C7_DefaultsApplied ==
  (/\ pc \in {"calling", "done", "escaped"} /\ request.body = "object"
   /\ request.text.present /\ request.text.type = "str" /\ Len(TrimmedText(request)) >= 50
   /\ ~request.mode.present /\ ~request.length.present) =>
     /\ Contains(trace, "generate_content")
     /\ cur_prompt = construct_prompt(Str(TrimmedText(request)), "paragraph", "medium")
     /\ upstream.kind = "text" =>
           /\ Done
           /\ responses = <<[status |-> 200,
                             body |-> [summary |-> Str(strip(upstream.val)),
                                       mode |-> "paragraph", length |-> "medium"]]>>

C7_Witness ==
  /\ Done /\ request.body = "object" /\ request.text.present
  /\ ~request.mode.present /\ ~request.length.present
  /\ upstream.kind = "text" /\ upstream.val # strip(upstream.val) /\ strip(upstream.val) # <<>>
  /\ Response.status = 200 /\ Response.body.length = "medium"

\* the keyword each mode's prompt must carry
Keyword(m) ==
  CASE m = "bullets" -> "bullet-point"
    [] m = "eli5"    -> "5-year-old"
    [] m = "seo"     -> "155 characters"
    [] OTHER         -> ""

\* C8: for the five modes and three lengths construct_prompt returns a
\* non-empty string that contains the text verbatim and the mode's keyword.
C8_PromptCarriesTextAndKeyword ==
  (/\ pc = "cp_done"
   /\ cur_mode \in {"paragraph", "bullets", "eli5", "questions", "seo"}
   /\ cur_length \in {"short", "medium", "long"}) =>
     LET parts == prompt_parts(cur_text, cur_mode, length_instruction_for(cur_length))
     IN  /\ cur_prompt # ""
         /\ cur_prompt = Concat(parts)
         /\ \E i \in 2..Len(parts) - 1 : parts[i] = cur_text
         /\ Keyword(cur_mode) # "" => Contains(parts, Keyword(cur_mode))

C8_Witness ==
  /\ pc = "cp_done" /\ cur_mode = "seo" /\ cur_length = "long" /\ cur_text # ""
  /\ cur_prompt # ""

\* C9: the checks run in the order body, text present, text length, mode,
\* length: a 400 response carries the message of the first violated one, and
\* a request read as JSON that violates any gets that 400.
C9_FirstViolationReported ==
  Ended =>
     /\ (Len(responses) = 1 /\ Response.status = 400) =>
          /\ Violations(request) # {}
          /\ Response.body.error = Messages[FirstViolation(request)]
     /\ (Parsed(request) /\ Violations(request) # {}) =>
          responses = <<ErrorResponse(400, Messages[FirstViolation(request)])>>

\* The same, the 400 being got by the well-typed requests.
FirstViolationReportedWellTyped ==
  Ended =>
     /\ (Len(responses) = 1 /\ Response.status = 400) =>
          /\ Violations(request) # {}
          /\ Response.body.error = Messages[FirstViolation(request)]
     /\ (Parsed(request) /\ WellTyped(request) /\ Violations(request) # {}) =>
          responses = <<ErrorResponse(400, Messages[FirstViolation(request)])>>

\* C10: a request that passes validation makes exactly one external call,
\* after the prompt is built and before the response, never repeated, and
\* ends in exactly one response: 200 when the call succeeds, else 500.
C10_ExactlyOneCall ==
  /\ Count(trace, "generate_content") <= 1
  /\ Count(trace, "respond") = Len(responses)
  /\ pc = "calling" =>
        /\ Parsed(request) /\ Violations(request) = {}
        /\ trace = <<"construct_prompt", "generate_content">>
        /\ invocations = 1
        /\ responses = <<>>
  /\ Ended =>
        /\ Len(responses) = 1
        /\ trace[Len(trace)] = "respond"
        /\ (Parsed(request) /\ WellTyped(request) /\ Violations(request) = {}) =>
              /\ SubSeq(trace, 1, 2) = <<"construct_prompt", "generate_content">>
              /\ Count(trace, "construct_prompt") = 1
              /\ Response.status = IF upstream.kind = "text" THEN 200 ELSE 500

\* The same, the response being that of the requests that no exception
\* leaves unanswered.
ExactlyOneCallAtMostOneResponse ==
  /\ Count(trace, "generate_content") <= 1
  /\ Count(trace, "respond") = Len(responses)
  /\ pc = "calling" =>
        /\ Parsed(request) /\ Violations(request) = {}
        /\ trace = <<"construct_prompt", "generate_content">>
        /\ invocations = 1
        /\ responses = <<>>
  /\ Done => (Len(responses) = 1 /\ trace[Len(trace)] = "respond")
  /\ pc = "escaped" => (responses = <<>> /\ escaped # "")
  /\ (Ended /\ Parsed(request) /\ WellTyped(request) /\ Violations(request) = {}) =>
        /\ SubSeq(trace, 1, 2) = <<"construct_prompt", "generate_content">>
        /\ Count(trace, "construct_prompt") = 1
        /\ Count(trace, "generate_content") = 1
        /\ Done => Response.status = IF upstream.kind = "text" THEN 200 ELSE 500
====
